---- MODULE Spec2Model ----
(***************************************************************************)
(* Model of the two MIMIC scripts of medorder_prediction:                  *)
(*   - mimic/resume_training_no_valid_mimic.py : resume the training of a  *)
(*     partially trained network from a checkpoint directory;              *)
(*   - mimic/w2v_embeddings_mimic.py : two cross-validated grid searches   *)
(*     (word2vec scored by analogy accuracy, clustering scored by cosine   *)
(*     silhouette).                                                        *)
(* The checkpoint directory is a function from file names to contents.     *)
(* A resume process walks through the script top to bottom; it may be      *)
(* terminated between any two steps, and the operator may start it again.  *)
(***************************************************************************)
EXTENDS Integers, Sequences, FiniteSets

\* ---------------------------------------------------------------- bounds
\* Largest epoch budget (N_TRAINING_EPOCHS) stored in hp.joblib.
MaxEpochs == 3
\* Number of times the resume script is started.
MaxRuns == 3
\* Number of hyperparameter combinations of a grid.
GridSize == 2
\* Scores are counted in units of 1/ScoreScale.
ScoreScale == 1

\* ------------------------------------------------------ checkpoint files
HpFile == "hp.joblib"
MarkerFile == "sampled_encs.pkl"
W2vFile == "w2v.joblib"
PseFile == "pse.joblib"
LeFile == "le.joblib"
CounterFile == "done_epochs.pkl"
PartialModelFile == "partially_trained_model.h5"

\* The file model.save() writes at the end of the script (a faulty variant writes
\* over the partially trained model instead).
SavePathPartial == "partially_trained_model.h5"
SavePath == "model.h5"

Files ==
  {HpFile, MarkerFile, W2vFile, PseFile, LeFile, CounterFile,
   PartialModelFile, "model.h5"}

\* The artifacts the script loads unconditionally.
Required == {HpFile, W2vFile, PseFile, LeFile, CounterFile, PartialModelFile}

\* The artifacts that identify the run.
IdentityFiles == {HpFile, W2vFile, PseFile, LeFile}

\* A file's content: absent, unreadable, or a readable value v.
\*   hp.joblib                  : v = N_TRAINING_EPOCHS
\*   w2v / pse / le             : v = number of times the transformer was fit
\*   done_epochs.pkl            : v = the pickled integer
\*   partially_trained_model.h5 : v = epochs of training in the weights
\*   model.h5                   : v = epochs of training in the weights
Absent == [st |-> "missing", v |-> 0]
Unreadable == [st |-> "corrupt", v |-> 0]
Content(x) == [st |-> "ok", v |-> x]

Readable(d, f) == d[f].st = "ok"
IsFile(d, f) == d[f].st # "missing"
WriteFile(d, f, x) == [d EXCEPT ![f] = Content(x)]

\* Python's False, passed as previous_encs_path when there is no marker.
PyFalse == "False"

\* The two callbacks of callback_mode='train_no_valid' that write files.
CallbackOrders ==
  {<<"ModelCheckpoint", "EpochLogger">>, <<"EpochLogger", "ModelCheckpoint">>}

VARIABLES
  disk,               \* the checkpoint directory
  cbOrder,            \* order of the callbacks in the list n.callbacks returns
  pc,                 \* position of the resume process in the script
  runs,               \* number of times the script was started
  N_TRAINING_EPOCHS,  \* line 60
  enc_file,           \* lines 64-68
  dataset,            \* what d.load_data loaded
  w2v, pse, le,       \* the loaded transformers (their fit count)
  N_DONE_EPOCHS,      \* line 116
  callbacks,          \* line 138
  cb_n_done,          \* n_done_epochs held by the epoch logger callback
  model,              \* epochs of training in the in-memory network
  epochs,             \* the epochs argument of fit_generator
  fit_callbacks,      \* the callbacks argument of fit_generator
  epoch,              \* index of the epoch of the running fit_generator
  origDisk,           \* history: the directory the interrupted run left
  startDisk,          \* history: the directory when this run started
  runEpochs,          \* history: epochs trained by this run
  lastResult,         \* history: the directory at the end of the last finished run
  search,             \* grid search: "w2v" or "clust"
  gpc,                \* grid search: position
  cand, fold,         \* grid search: candidate and fold being evaluated
  test_score,         \* grid search: cv_results_ split scores
  fit_failed,         \* grid search: the (candidate, fold) fits that raised
  best_index_         \* grid search: the selected candidate

resumeVars ==
  <<disk, cbOrder, pc, runs, N_TRAINING_EPOCHS, enc_file, dataset, w2v, pse, le,
    N_DONE_EPOCHS, callbacks, cb_n_done, model, epochs, fit_callbacks, epoch,
    origDisk, startDisk, runEpochs, lastResult>>

gridVars == <<search, gpc, cand, fold, test_score, fit_failed, best_index_>>

locals ==
  <<N_TRAINING_EPOCHS, enc_file, dataset, w2v, pse, le, N_DONE_EPOCHS,
    callbacks, cb_n_done, model, epochs, fit_callbacks, epoch>>

vars == <<resumeVars, gridVars>>

\* ------------------------------------------------------- resume: helpers
Running ==
  {"load_hp", "load_data", "load_w2v", "load_pse", "load_le", "load_done",
   "callbacks", "load_model", "fit", "epoch_begin", "on_epoch_end_1",
   "on_epoch_end_2", "save"}

\* Positions inside or after the fit_generator call.
InFit == {"epoch_begin", "on_epoch_end_1", "on_epoch_end_2", "save", "done"}

\* A checkpoint directory the resume script can be pointed at: the run's
\* identity artifacts, the counter and the partially trained model that the
\* interrupted run left, any of them possibly absent, the counter possibly
\* unreadable; model.h5 is not written yet.
CheckpointDir(total, done, missing, corrupt, marker) ==
  [f \in Files |->
     IF f \in missing THEN Absent
     ELSE IF f = HpFile THEN Content(total)
     ELSE IF f = MarkerFile THEN (IF marker THEN Content(0) ELSE Absent)
     ELSE IF f = CounterFile THEN (IF corrupt THEN Unreadable ELSE Content(done))
     ELSE IF f = PartialModelFile THEN Content(done)
     ELSE IF f \in {W2vFile, PseFile, LeFile} THEN Content(1)
     ELSE Absent]

LocalsReset ==
  /\ N_TRAINING_EPOCHS' = 0
  /\ enc_file' = PyFalse
  /\ dataset' = "none"
  /\ w2v' = 0
  /\ pse' = 0
  /\ le' = 0
  /\ N_DONE_EPOCHS' = 0
  /\ callbacks' = <<>>
  /\ cb_n_done' = 0
  /\ model' = 0
  /\ epochs' = 0
  /\ fit_callbacks' = <<>>
  /\ epoch' = 0

ResumeIdle ==
  /\ pc = "idle"
  /\ runs = 0
  /\ N_TRAINING_EPOCHS = 0
  /\ enc_file = PyFalse
  /\ dataset = "none"
  /\ w2v = 0
  /\ pse = 0
  /\ le = 0
  /\ N_DONE_EPOCHS = 0
  /\ callbacks = <<>>
  /\ cb_n_done = 0
  /\ model = 0
  /\ epochs = 0
  /\ fit_callbacks = <<>>
  /\ epoch = 0
  /\ runEpochs = 0
  /\ lastResult = {}

GridIdle ==
  /\ search = "none"
  /\ gpc = "idle"
  /\ cand = 0
  /\ fold = 0
  /\ test_score = <<>>
  /\ fit_failed = {}
  /\ best_index_ = 0

Init ==
  /\ \E total \in 1..MaxEpochs, done \in 0..MaxEpochs,
        missing \in SUBSET Required, corrupt \in BOOLEAN, marker \in BOOLEAN :
       /\ done <= total
       /\ disk = CheckpointDir(total, done, missing, corrupt, marker)
  /\ origDisk = disk
  /\ startDisk = disk
  /\ cbOrder \in CallbackOrders
  /\ ResumeIdle
  /\ GridIdle

\* ------------------------------------------------------- resume: actions
\* The operator starts the script (again).
Start ==
  /\ pc \in {"idle", "done", "aborted", "killed"}
  /\ runs < MaxRuns
  /\ runs' = runs + 1
  /\ pc' = "load_hp"
  /\ LocalsReset
  /\ startDisk' = disk
  /\ runEpochs' = 0
  /\ lastResult' = IF pc = "done" THEN {disk} ELSE lastResult
  /\ UNCHANGED <<disk, origDisk, cbOrder, gridVars>>

\* The process is terminated from outside.
Kill ==
  /\ pc \in Running
  /\ pc' = "killed"
  /\ UNCHANGED <<disk, origDisk, cbOrder, runs, locals, startDisk, runEpochs, lastResult, gridVars>>

\* joblib.load(hp.joblib): raises when the file cannot be read.
LoadHp ==
  /\ pc = "load_hp"
  /\ IF Readable(disk, HpFile)
       THEN /\ N_TRAINING_EPOCHS' = disk[HpFile].v
            /\ pc' = "load_data"
       ELSE /\ N_TRAINING_EPOCHS' = N_TRAINING_EPOCHS
            /\ pc' = "aborted"
  /\ UNCHANGED <<disk, origDisk, cbOrder, runs, enc_file, dataset, w2v, pse, le, N_DONE_EPOCHS,
                 callbacks, cb_n_done, model, epochs, fit_callbacks, epoch,
                 startDisk, runEpochs, lastResult, gridVars>>

\* enc_file as lines 64-68 choose it (a faulty variant inverts the test).
EncFileInverted == IF IsFile(disk, MarkerFile) THEN PyFalse ELSE MarkerFile
EncFile == IF IsFile(disk, MarkerFile) THEN MarkerFile ELSE PyFalse

\* d.load_data(previous_encs_path=...): the restricted subset when given the
\* path of the sampled encounters, the full dataset when given False.
load_data(previous_encs_path) ==
  IF previous_encs_path = PyFalse THEN "full" ELSE "restricted"

LoadData ==
  /\ pc = "load_data"
  /\ enc_file' = EncFile
  /\ dataset' = load_data(enc_file')
  /\ pc' = "load_w2v"
  /\ UNCHANGED <<disk, origDisk, cbOrder, runs, N_TRAINING_EPOCHS, w2v, pse, le, N_DONE_EPOCHS,
                 callbacks, cb_n_done, model, epochs, fit_callbacks, epoch,
                 startDisk, runEpochs, lastResult, gridVars>>

\* A faulty variant of line 84: the pipeline is fit again and dumped.
LoadW2vRefit ==
  /\ pc = "load_w2v"
  /\ IF Readable(disk, W2vFile)
       THEN /\ w2v' = disk[W2vFile].v + 1
            /\ disk' = WriteFile(disk, W2vFile, disk[W2vFile].v + 1)
            /\ pc' = "load_pse"
       ELSE /\ w2v' = w2v
            /\ disk' = disk
            /\ pc' = "aborted"
  /\ UNCHANGED <<origDisk, cbOrder, runs, N_TRAINING_EPOCHS, enc_file, dataset, pse, le,
                 N_DONE_EPOCHS, callbacks, cb_n_done, model, epochs, fit_callbacks,
                 epoch, startDisk, runEpochs, lastResult, gridVars>>

LoadW2v ==
  /\ pc = "load_w2v"
  /\ IF Readable(disk, W2vFile)
       THEN /\ w2v' = disk[W2vFile].v
            /\ pc' = "load_pse"
       ELSE /\ w2v' = w2v
            /\ pc' = "aborted"
  /\ UNCHANGED <<disk, origDisk, cbOrder, runs, N_TRAINING_EPOCHS, enc_file, dataset, pse, le,
                 N_DONE_EPOCHS, callbacks, cb_n_done, model, epochs, fit_callbacks,
                 epoch, startDisk, runEpochs, lastResult, gridVars>>

LoadPse ==
  /\ pc = "load_pse"
  /\ IF Readable(disk, PseFile)
       THEN /\ pse' = disk[PseFile].v
            /\ pc' = "load_le"
       ELSE /\ pse' = pse
            /\ pc' = "aborted"
  /\ UNCHANGED <<disk, origDisk, cbOrder, runs, N_TRAINING_EPOCHS, enc_file, dataset, w2v, le,
                 N_DONE_EPOCHS, callbacks, cb_n_done, model, epochs, fit_callbacks,
                 epoch, startDisk, runEpochs, lastResult, gridVars>>

LoadLe ==
  /\ pc = "load_le"
  /\ IF Readable(disk, LeFile)
       THEN /\ le' = disk[LeFile].v
            /\ pc' = "load_done"
       ELSE /\ le' = le
            /\ pc' = "aborted"
  /\ UNCHANGED <<disk, origDisk, cbOrder, runs, N_TRAINING_EPOCHS, enc_file, dataset, w2v, pse,
                 N_DONE_EPOCHS, callbacks, cb_n_done, model, epochs, fit_callbacks,
                 epoch, startDisk, runEpochs, lastResult, gridVars>>

\* A faulty variant of lines 115-116: an unreadable counter falls back to 0.
LoadDoneEpochsWithDefault ==
  /\ pc = "load_done"
  /\ N_DONE_EPOCHS' = IF Readable(disk, CounterFile) THEN disk[CounterFile].v ELSE 0
  /\ pc' = "callbacks"
  /\ UNCHANGED <<disk, origDisk, cbOrder, runs, N_TRAINING_EPOCHS, enc_file, dataset, w2v, pse,
                 le, callbacks, cb_n_done, model, epochs, fit_callbacks, epoch,
                 startDisk, runEpochs, lastResult, gridVars>>

\* open(done_epochs.pkl) and pickle.load: either raises.
LoadDoneEpochs ==
  /\ pc = "load_done"
  /\ IF Readable(disk, CounterFile)
       THEN /\ N_DONE_EPOCHS' = disk[CounterFile].v
            /\ pc' = "callbacks"
       ELSE /\ N_DONE_EPOCHS' = N_DONE_EPOCHS
            /\ pc' = "aborted"
  /\ UNCHANGED <<disk, origDisk, cbOrder, runs, N_TRAINING_EPOCHS, enc_file, dataset, w2v, pse,
                 le, callbacks, cb_n_done, model, epochs, fit_callbacks, epoch,
                 startDisk, runEpochs, lastResult, gridVars>>

\* The n_done_epochs argument of n.callbacks (a faulty variant passes the epochs
\* that remain instead of the epochs that are done).
CallbackNDoneRemaining == N_TRAINING_EPOCHS - N_DONE_EPOCHS
CallbackNDone == N_DONE_EPOCHS

\* n.callbacks(save_path, callback_mode='train_no_valid', n_done_epochs=...):
\* a model checkpoint and an epoch logger, both run at the end of each epoch.
n_callbacks == cbOrder

MakeCallbacks ==
  /\ pc = "callbacks"
  /\ callbacks' = n_callbacks
  /\ cb_n_done' = CallbackNDone
  /\ pc' = "load_model"
  /\ UNCHANGED <<disk, origDisk, cbOrder, runs, N_TRAINING_EPOCHS, enc_file, dataset, w2v, pse,
                 le, N_DONE_EPOCHS, model, epochs, fit_callbacks, epoch,
                 startDisk, runEpochs, lastResult, gridVars>>

\* tf.keras.models.load_model(partially_trained_model.h5)
LoadModel ==
  /\ pc = "load_model"
  /\ IF Readable(disk, PartialModelFile)
       THEN /\ model' = disk[PartialModelFile].v
            /\ pc' = "fit"
       ELSE /\ model' = model
            /\ pc' = "aborted"
  /\ UNCHANGED <<disk, origDisk, cbOrder, runs, N_TRAINING_EPOCHS, enc_file, dataset, w2v, pse,
                 le, N_DONE_EPOCHS, callbacks, cb_n_done, epochs, fit_callbacks,
                 epoch, startDisk, runEpochs, lastResult, gridVars>>

\* The epochs argument of fit_generator (faulty variants: the whole budget again;
\* at least one epoch).
FitEpochsWholeBudget == N_TRAINING_EPOCHS
FitEpochsAtLeastOne ==
  IF N_TRAINING_EPOCHS - N_DONE_EPOCHS < 1 THEN 1 ELSE N_TRAINING_EPOCHS - N_DONE_EPOCHS
FitEpochs == N_TRAINING_EPOCHS - N_DONE_EPOCHS

\* The callbacks argument of fit_generator (a faulty variant passes none).
FitCallbacksNone == <<>>
FitCallbacks == callbacks

\* model.fit_generator(train_generator, epochs=..., callbacks=...) is entered.
FitBegin ==
  /\ pc = "fit"
  /\ epochs' = FitEpochs
  /\ fit_callbacks' = FitCallbacks
  /\ epoch' = 0
  /\ pc' = "epoch_begin"
  /\ UNCHANGED <<disk, origDisk, cbOrder, runs, N_TRAINING_EPOCHS, enc_file, dataset, w2v, pse,
                 le, N_DONE_EPOCHS, callbacks, cb_n_done, model,
                 startDisk, runEpochs, lastResult, gridVars>>

\* One pass of the generator over the training set.
TrainEpoch ==
  /\ pc = "epoch_begin"
  /\ epoch < epochs
  /\ model' = model + 1
  /\ runEpochs' = runEpochs + 1
  /\ pc' = "on_epoch_end_1"
  /\ UNCHANGED <<disk, origDisk, cbOrder, runs, N_TRAINING_EPOCHS, enc_file, dataset, w2v, pse,
                 le, N_DONE_EPOCHS, callbacks, cb_n_done, epochs, fit_callbacks,
                 epoch, startDisk, lastResult, gridVars>>

\* What one callback writes at the end of epoch number `epoch` (from 0).
on_epoch_end(name, d) ==
  IF name = "ModelCheckpoint"
    THEN WriteFile(d, PartialModelFile, model)
    ELSE WriteFile(d, CounterFile, cb_n_done + epoch + 1)

OnEpochEnd1 ==
  /\ pc = "on_epoch_end_1"
  /\ disk' = IF Len(fit_callbacks) >= 1 THEN on_epoch_end(fit_callbacks[1], disk) ELSE disk
  /\ pc' = "on_epoch_end_2"
  /\ UNCHANGED <<origDisk, cbOrder, runs, locals, startDisk, runEpochs, lastResult, gridVars>>

OnEpochEnd2 ==
  /\ pc = "on_epoch_end_2"
  /\ disk' = IF Len(fit_callbacks) >= 2 THEN on_epoch_end(fit_callbacks[2], disk) ELSE disk
  /\ epoch' = epoch + 1
  /\ pc' = "epoch_begin"
  /\ UNCHANGED <<origDisk, cbOrder, runs, N_TRAINING_EPOCHS, enc_file, dataset, w2v, pse, le,
                 N_DONE_EPOCHS, callbacks, cb_n_done, model, epochs, fit_callbacks,
                 startDisk, runEpochs, lastResult, gridVars>>

\* fit_generator returns when range(epochs) is exhausted.
FitReturn ==
  /\ pc = "epoch_begin"
  /\ epoch >= epochs
  /\ pc' = "save"
  /\ UNCHANGED <<disk, origDisk, cbOrder, runs, locals, startDisk, runEpochs, lastResult, gridVars>>

\* model.save(os.path.join(save_path, 'model.h5'))
SaveModel ==
  /\ pc = "save"
  /\ disk' = WriteFile(disk, SavePath, model)
  /\ pc' = "done"
  /\ UNCHANGED <<origDisk, cbOrder, runs, locals, startDisk, runEpochs, lastResult, gridVars>>

Next ==
  \/ Start
  \/ Kill
  \/ LoadHp
  \/ LoadData
  \/ LoadW2v
  \/ LoadPse
  \/ LoadLe
  \/ LoadDoneEpochs
  \/ MakeCallbacks
  \/ LoadModel
  \/ FitBegin
  \/ TrainEpoch
  \/ OnEpochEnd1
  \/ OnEpochEnd2
  \/ FitReturn
  \/ SaveModel

Spec == Init /\ [][Next]_vars

\* ------------------------------------------------------ resume: claims
\* The script top to bottom; a run's position is an index into it.
Script ==
  <<"load_hp", "load_data", "load_w2v", "load_pse", "load_le", "load_done",
    "callbacks", "load_model", "fit", "epoch_begin", "on_epoch_end_1",
    "on_epoch_end_2", "save", "done">>

Position(p) == CHOOSE i \in 1..Len(Script) : Script[i] = p

\* The step that loads a required artifact.
LoadStep(f) ==
  IF f = HpFile THEN "load_hp"
  ELSE IF f = W2vFile THEN "load_w2v"
  ELSE IF f = PseFile THEN "load_pse"
  ELSE IF f = LeFile THEN "load_le"
  ELSE IF f = CounterFile THEN "load_done"
  ELSE "load_model"

Invalid(d) == \E f \in Required : ~Readable(d, f)

Total == disk[HpFile].v
Counter == disk[CounterFile].v

\* C1: a resume run that reads completed < total from the checkpoint and is
\* not interrupted has trained exactly total - completed epochs when it
\* finishes, and the counter file then holds total.
C1_TrainsRemainingEpochs ==
  (pc = "done" /\ N_DONE_EPOCHS < N_TRAINING_EPOCHS) =>
    /\ N_DONE_EPOCHS = startDisk[CounterFile].v
    /\ N_TRAINING_EPOCHS = startDisk[HpFile].v
    /\ 0 <= N_DONE_EPOCHS
    /\ runEpochs = N_TRAINING_EPOCHS - N_DONE_EPOCHS
    /\ disk[CounterFile] = Content(N_TRAINING_EPOCHS)

C1_Witness ==
  /\ pc = "done"
  /\ N_DONE_EPOCHS = 1
  /\ N_TRAINING_EPOCHS = 3
  /\ runEpochs = 2
  /\ disk[CounterFile] = Content(3)

\* C2: a finished resume run that read completed = total has trained no
\* epoch, left the counter and every other file but model.h5 as they were,
\* and written model.h5 with the weights of the loaded partially trained
\* model; run again on the directory a finished run left, it leaves the
\* directory exactly as it found it.
C2_BoundaryIsIdempotent ==
  (pc = "done" /\ N_DONE_EPOCHS = N_TRAINING_EPOCHS) =>
    /\ runEpochs = 0
    /\ disk[CounterFile] = Content(N_TRAINING_EPOCHS)
    /\ disk["model.h5"] = startDisk[PartialModelFile]
    /\ \A f \in Files \ {"model.h5"} : disk[f] = startDisk[f]
    /\ lastResult # {} => lastResult = {disk}

C2_Witness ==
  /\ pc = "done"
  /\ N_DONE_EPOCHS = N_TRAINING_EPOCHS
  /\ lastResult = {disk}
  /\ runs >= 2

\* C3: at every point of a resume run, and so wherever it is terminated, the
\* counter file and the partially trained model on disk have advanced by at
\* least (epochs trained by this run - 1); once the callbacks of an epoch
\* have run they have advanced by exactly the epochs trained.
C3_LosesAtMostOneEpoch ==
  /\ runEpochs >= 1 =>
       /\ Counter - startDisk[CounterFile].v >= runEpochs - 1
       /\ disk[PartialModelFile].v - startDisk[PartialModelFile].v >= runEpochs - 1
  /\ (pc \in {"epoch_begin", "save", "done"} /\ runEpochs >= 1) =>
       /\ Counter = startDisk[CounterFile].v + runEpochs
       /\ disk[PartialModelFile].v = model

C3_Witness ==
  /\ pc = "killed"
  /\ runEpochs = 2
  /\ Counter = startDisk[CounterFile].v + 1
  /\ disk[PartialModelFile].v = startDisk[PartialModelFile].v + 1

\* The readable counter lies in 0..total and the epochs argument of
\* fit_generator is not negative.
CounterInRange ==
  /\ (Readable(disk, CounterFile) /\ Readable(disk, HpFile)) =>
       (0 <= Counter /\ Counter <= Total)
  /\ pc \in InFit => epochs >= 0

\* A step leaves the counter readable and does not make it smaller.
CounterNeverDecreases ==
  Readable(disk, CounterFile) =>
    (Readable(disk', CounterFile) /\ disk'[CounterFile].v >= disk[CounterFile].v)

\* C4: the readable counter always lies in 0..total, the epochs argument of
\* fit_generator is never negative, and no step makes the counter smaller.
C4_CounterBoundedMonotone == [](CounterInRange) /\ [][CounterNeverDecreases]_vars

C4_Witness ==
  /\ runs >= 2
  /\ runEpochs = 1
  /\ Counter = origDisk[CounterFile].v + 2
  /\ Counter = Total

\* C5: a run started on a directory in which a required artifact is absent
\* or the counter unreadable never gets past the step that loads it: it
\* trains no epoch, writes nothing (no final model), and ends aborted.
C5_MissingArtifactIsFatal ==
  \A f \in Required :
    (pc # "idle" /\ ~Readable(startDisk, f)) =>
      /\ pc \in Running => Position(pc) <= Position(LoadStep(f))
      /\ pc # "done"
      /\ runEpochs = 0
      /\ disk = startDisk

C5_Witness ==
  /\ pc = "aborted"
  /\ disk[CounterFile] = Unreadable
  /\ \A f \in Required \ {CounterFile} : Readable(disk, f)

\* C6: once the data is loaded, the restricted subset was loaded (with the
\* marker's path) exactly when the marker file is in the directory, the
\* full dataset otherwise; and a run aborts only on an unreadable required
\* artifact, never because of the marker.
C6_RestrictedIffMarker ==
  /\ (pc \in Running /\ Position(pc) > Position("load_data")) => dataset # "none"
  /\ dataset # "none" =>
       /\ enc_file = (IF IsFile(disk, MarkerFile) THEN MarkerFile ELSE PyFalse)
       /\ dataset = (IF IsFile(disk, MarkerFile) THEN "restricted" ELSE "full")
  /\ pc = "aborted" => Invalid(disk)

C6_Witness ==
  /\ pc = "done"
  /\ runEpochs >= 1
  /\ IsFile(disk, MarkerFile)
  /\ dataset = "restricted"

\* C8: whatever the number of resume runs, hp, w2v, pse and le on disk (and
\* every file other than the counter, the partially trained model and the
\* final model) are as the interrupted run left them, and the transformers
\* in memory are the ones that were loaded, not refit.
C8_IdentityArtifactsReadOnly ==
  /\ \A f \in IdentityFiles : disk[f] = origDisk[f]
  /\ \A f \in Files \ {CounterFile, PartialModelFile, "model.h5"} : disk[f] = origDisk[f]
  /\ (pc \in Running /\ Position(pc) > Position("load_le")) =>
       /\ w2v = origDisk[W2vFile].v
       /\ pse = origDisk[PseFile].v
       /\ le = origDisk[LeFile].v

C8_Witness ==
  /\ runs >= 2
  /\ pc = "done"
  /\ disk[CounterFile] # origDisk[CounterFile]
  /\ disk[PartialModelFile] # origDisk[PartialModelFile]
  /\ disk["model.h5"] # origDisk["model.h5"]

\* model.h5 is another file than the partially trained model; a run that has
\* not finished has not touched it, and a finished run has written it.
FinalModelUntouchedUntilDone ==
  /\ SavePath # PartialModelFile
  /\ pc # "done" => disk["model.h5"] = startDisk["model.h5"]
  /\ pc = "done" => disk["model.h5"] = Content(model)

\* model.h5 changes only in the step after fit_generator has returned, and
\* that step leaves the partially trained model as it is.
FinalModelWrittenOnlyBySave ==
  disk'["model.h5"] # disk["model.h5"] =>
    /\ pc = "save"
    /\ epoch >= epochs
    /\ pc' = "done"
    /\ disk'[PartialModelFile] = disk[PartialModelFile]

\* C9: model.h5 is another file than the partially trained model; it changes
\* only in the step after fit_generator has returned, and that step leaves
\* the partially trained model as it is; a run that has not finished has
\* not touched model.h5, and a finished run has written it.
C9_FinalModelAfterTraining ==
  [](FinalModelUntouchedUntilDone) /\ [][FinalModelWrittenOnlyBySave]_vars

C9_Witness ==
  /\ pc = "done"
  /\ runEpochs >= 1
  /\ disk["model.h5"] = Content(model)
  /\ disk[PartialModelFile] = Content(model)
  /\ startDisk["model.h5"] = Absent

\* C10: across terminations and resume runs the fit is asked for exactly
\* total - (persisted counter) epochs, the persisted partially trained model
\* never holds more than total epochs of training, and when a run finishes
\* the counter is total and model.h5 holds exactly total epochs of training.
C10_ExactlyTotalEpochs ==
  /\ pc \in InFit => epochs = startDisk[HpFile].v - startDisk[CounterFile].v
  /\ (Readable(disk, PartialModelFile) /\ Readable(disk, HpFile)) =>
       disk[PartialModelFile].v <= Total
  /\ pc = "done" =>
       /\ Counter = Total
       /\ disk["model.h5"] = Content(Total)

\* ------------------------------------------------------------ grid search
\* GridSearchCV(pipe, GRID, scoring={...}, cv=3, refit=..., error_score=0)
cv == 3
error_score == 0

Candidates == 1..GridSize
Folds == 1..cv

\* accuracy_scorer_gensim: correct / (correct + incorrect), in units of
\* 1/ScoreScale.
accuracy_scorer_gensim(correct, incorrect) ==
  (correct * ScoreScale) \div (correct + incorrect)

\* The values a scorer can return for a fitted candidate: an analogy
\* accuracy lies in [0, 1], a cosine silhouette in [-1, 1].
Scores(s) ==
  IF s = "w2v"
    THEN {accuracy_scorer_gensim(c, ScoreScale - c) : c \in 0..ScoreScale}
    ELSE (0 - ScoreScale)..ScoreScale

RECURSIVE SumSeq(_)
SumSeq(q) == IF q = <<>> THEN 0 ELSE Head(q) + SumSeq(Tail(q))

\* cv times the mean test score of a candidate (every candidate has cv
\* split scores, so the order of these is the order of the means).
mean_test_score(c) == SumSeq(test_score[c])

\* rank_test_<scorer>: 1 for the highest mean, ties share the lowest rank.
rank_test(c) ==
  1 + Cardinality({d \in Candidates : mean_test_score(d) > mean_test_score(c)})

\* best_index_ = rank_test.argmin(): the first candidate of rank 1.
BestIndex ==
  CHOOSE c \in Candidates :
    /\ rank_test(c) = 1
    /\ \A d \in Candidates : rank_test(d) = 1 => c <= d

GridInit ==
  /\ search \in {"w2v", "clust"}
  /\ gpc = "fit"
  /\ cand = 1
  /\ fold = 1
  /\ test_score = [c \in Candidates |-> <<>>]
  /\ fit_failed = {}
  /\ best_index_ = 0
  /\ disk = CheckpointDir(1, 0, {}, FALSE, FALSE)
  /\ origDisk = disk
  /\ startDisk = disk
  /\ cbOrder = <<"ModelCheckpoint", "EpochLogger">>
  /\ ResumeIdle

\* One (candidate, fold) fit and its score: a fit that raises is recorded
\* with error_score, a fit that succeeds with what the scorer returns.
FitAndScore ==
  /\ gpc = "fit"
  /\ \E raised \in BOOLEAN, s \in Scores(search) :
       /\ test_score' =
            [test_score EXCEPT ![cand] = Append(@, IF raised THEN error_score ELSE s)]
       /\ fit_failed' = IF raised THEN fit_failed \cup {<<cand, fold>>} ELSE fit_failed
  /\ IF fold < cv
       THEN /\ fold' = fold + 1
            /\ cand' = cand
            /\ gpc' = gpc
       ELSE IF cand < GridSize
         THEN /\ fold' = 1
              /\ cand' = cand + 1
              /\ gpc' = gpc
         ELSE /\ fold' = fold
              /\ cand' = cand
              /\ gpc' = "select"
  /\ UNCHANGED <<search, best_index_, resumeVars>>

\* The results are ranked and the best candidate is kept for the refit.
SelectBest ==
  /\ gpc = "select"
  /\ best_index_' = BestIndex
  /\ gpc' = "done"
  /\ UNCHANGED <<search, cand, fold, test_score, fit_failed, resumeVars>>

GridNext ==
  \/ FitAndScore
  \/ SelectBest

GridSpec == GridInit /\ [][GridNext]_vars

\* ------------------------------------------------------ grid search: claim
Errored(c) == \E f \in Folds : <<c, f>> \in fit_failed

\* C7: in both searches, whenever some candidate did not error, the selected
\* candidate did not error and has the highest recorded score among the
\* candidates that did not error.
C7_BestIsMaxOfNonErrored ==
  (gpc = "done" /\ \E c \in Candidates : ~Errored(c)) =>
    /\ ~Errored(best_index_)
    /\ \A c \in Candidates :
         ~Errored(c) => mean_test_score(c) <= mean_test_score(best_index_)

====
